---- MODULE Spec2Model ----
(***************************************************************************)
(* Start-up of one cherami node process, cmd/servicecmd/servicestartcmd.go *)
(* One behaviour follows the process of one role through its Start*Service *)
(* function, statement by statement, and through restarts of that process  *)
(* by its supervisor.                                                      *)
(***************************************************************************)
EXTENDS Integers, Sequences, FiniteSets, TLC

(***************************************************************************)
(* Bounds of the model.                                                    *)
(***************************************************************************)
\* number of process starts followed in one behaviour
MaxRuns == 2
\* configurations differ in the rotation of the port table, 0..MaxPortProfile
MaxPortProfile == 1
\* a backend name holds at most this many backend tokens in a row
MaxTokens == 2

(***************************************************************************)
(* Strings.  A Go string that holds text given to the program (an argument *)
(* of the command line, a configured name or path, a value of the          *)
(* environment) is the sequence of its runes, each rune its code point; a  *)
(* byte that belongs to no valid UTF-8 encoding is written as the negated  *)
(* byte.  Text the program composes from its own ASCII literals and from   *)
(* numbers (the port, an address, a fatal message) is a TLA+ string, a     *)
(* character being a string of length one.                                 *)
(***************************************************************************)
UpperChars == "ABCDEFGHIJKLMNOPQRSTUVWXYZ"
LowerChars == "abcdefghijklmnopqrstuvwxyz"
DigitChars == "0123456789"
PunctChars == " ()-./:=?_"
PunctCodes == <<32, 40, 41, 45, 46, 47, 58, 61, 63, 95>>

CharAt(s, i) == SubSeq(s, i, i)

\* the index of character c in chars, 0 when it is not there
IndexIn(chars, c) ==
    LET at == {i \in 1..Len(chars) : CharAt(chars, i) = c}
    IN  IF at = {} THEN 0 ELSE CHOOSE i \in at : TRUE

\* the code point of each ASCII character the literals and names are written with
AsciiCode ==
    [c \in UNION { {CharAt(chars, i) : i \in 1..Len(chars)} :
                   chars \in {UpperChars, LowerChars, DigitChars, PunctChars} } |->
       IF IndexIn(UpperChars, c) # 0 THEN 64 + IndexIn(UpperChars, c)
       ELSE IF IndexIn(LowerChars, c) # 0 THEN 96 + IndexIn(LowerChars, c)
       ELSE IF IndexIn(DigitChars, c) # 0 THEN 47 + IndexIn(DigitChars, c)
       ELSE PunctCodes[IndexIn(PunctChars, c)]]

RECURSIVE RunesFrom(_, _)
RunesFrom(text, i) ==
    IF i > Len(text) THEN <<>>
    ELSE <<AsciiCode[CharAt(text, i)]>> \o RunesFrom(text, i + 1)

\* the Go string written as the ASCII literal `text`
Runes(text) == RunesFrom(text, 1)

\* utf8.RuneError, U+FFFD
RuneError == 65533

\* U+212A KELVIN SIGN, U+0130 LATIN CAPITAL LETTER I WITH DOT ABOVE,
\* U+0421 CYRILLIC CAPITAL LETTER ES, U+017F LATIN SMALL LETTER LONG S
KelvinSign == 8490
CapitalIDot == 304
CyrillicEs == 1057
LongS == 383

\* a byte 0xFF, which no UTF-8 encoding holds
InvalidByte == 0 - 255

\* unicode.ToLower outside ASCII, for the runes that names of the model hold:
\* the Kelvin sign lowers to k, the dotted capital I to i, the Cyrillic Es to
\* the Cyrillic small es; every other rune outside ASCII used here is its own
\* lower case
LowerOf == (KelvinSign :> 107) @@ (CapitalIDot :> 105) @@ (CyrillicEs :> 1089)

\* the rune that ranging over a string yields for element c: RuneError for a
\* byte that decodes to no rune
Decoded(c) == IF c < 0 THEN RuneError ELSE c

\* unicode.ToLower of the rune decoded from c
LowerChar(c) ==
    IF c < 0 THEN RuneError
    ELSE IF c >= 65 /\ c <= 90 THEN c + 32
    ELSE IF c \in DOMAIN LowerOf THEN LowerOf[c]
    ELSE c

\* the Go the program is built with, as far as strings.Map differs.  Before
\* Go 1.12 Map allocates its output at the first rune the mapping changes and
\* copies what precedes that rune byte for byte; from Go 1.12 on it writes
\* RuneError for every byte that is no UTF-8.
GoBuilds == {"before 1.12", "1.12 or later"}

RECURSIVE LowerFrom(_, _, _, _)
\* strings.Map(unicode.ToLower, s) from the i-th rune on; `copied` says that an
\* earlier rune was changed, so that the output is no longer a copy of s
LowerFrom(s, i, copied, build) ==
    IF i > Len(s) THEN <<>>
    ELSE LET c == s[i]
             r == LowerChar(c)
             verbatim == build = "before 1.12" /\ ~copied
         IN  <<IF verbatim /\ r = Decoded(c) THEN c ELSE r>>
             \o LowerFrom(s, i + 1, copied \/ r # Decoded(c), build)

\* strings.ToLower
ToLower(s, build) == LowerFrom(s, 1, FALSE, build)

\* strings.Contains
Contains(s, substr) ==
    \E i \in 0..(Len(s) - Len(substr)) : SubSeq(s, i + 1, i + Len(substr)) = substr

RECURSIVE FormatNat(_)
FormatNat(n) ==
    IF n < 10 THEN CharAt(DigitChars, n + 1)
    ELSE FormatNat(n \div 10) \o CharAt(DigitChars, (n % 10) + 1)

\* fmt.Sprintf("%d", n)
FormatInt(n) == IF n < 0 THEN "-" \o FormatNat(0 - n) ELSE FormatNat(n)

\* net.IP.String() of an IPv4 address, kept as its four bytes
IPString(ip) ==
    FormatInt(ip[1]) \o "." \o FormatInt(ip[2]) \o "." \o FormatInt(ip[3]) \o "." \o FormatInt(ip[4])

(***************************************************************************)
(* Roles and what the six Start*Service functions differ in.               *)
(***************************************************************************)
Roles == {"input", "controller", "frontend", "output", "store", "replicator"}

RoleOrder == <<"input", "controller", "frontend", "output", "store", "replicator">>

RoleIdx(r) == CHOOSE i \in 1..Len(RoleOrder) : RoleOrder[i] = r

diagnosticPortOffset == 10000

\* optional values: a nil pointer or interface is None
None == <<>>
Some(x) == <<x>>
Get(o) == o[1]

\* WebsocketRoles with a websocket server in all six functions
WebsocketRolesAll == Roles

\* roles whose function calls common.WSStart
WebsocketRoles == {"input", "output", "store", "replicator"}

\* the message each function hands to log.Fatal when the metadata client fails
FatalMessage(r) ==
    CASE r = "input"      -> "inputhost: unable to instantiate metadata client"
      [] r = "controller" -> "unable to instantiate metadata service (did you run ./scripts/setup_cassandra_schema.sh?)"
      [] r = "frontend"   -> "frontendhost: unable to instantiate metadata service"
      [] r = "output"     -> "frontendhost: unable to instantiate metadata service"
      [] r = "store"      -> "storehost: unable to instantiate metadata client"
      [] r = "replicator" -> "frontendhost: unable to instantiate metadata service"

\* the package whose constructor builds the role's host
HostPackage(r) ==
    CASE r = "input"      -> "inputhost"
      [] r = "controller" -> "controllerhost"
      [] r = "frontend"   -> "frontendhost"
      [] r = "output"     -> "outputhost"
      [] r = "store"      -> "storehost"
      [] r = "replicator" -> "replicator"

\* what each function passes to common.ServiceLoop as the service to expose
LoopService(r) ==
    CASE r = "input"      -> "h"
      [] r = "controller" -> "mcp.Service"
      [] r = "frontend"   -> "sCommon"
      [] r = "output"     -> "sCommon"
      [] r = "store"      -> "sCommon"
      [] r = "replicator" -> "sCommon"

(***************************************************************************)
(* Inputs: configurations, environments, command lines, errors.            *)
(***************************************************************************)
PortChoices == <<4240, 65535, 4922, 1, 4253, 6280, 5425, 4254>>
WSPortChoices == <<6189, 65534, 6192, 2, 6191, 6310, 6193, 6190>>
AddrChoices == <<<<127, 0, 0, 1>>, <<0, 0, 0, 0>>, <<10, 0, 0, 255>>>>

Rot(choices, r, k) == choices[((RoleIdx(r) - 1 + k) % Len(choices)) + 1]

\* the ServiceConfig of every role under port profile k
ServiceConfigs(k) ==
    [r \in Roles |-> [Port          |-> Rot(PortChoices, r, k),
                      WebsocketPort |-> Rot(WSPortChoices, r, k),
                      ListenAddress |-> Rot(AddrChoices, r, k)]]

HostUUIDs == {"11111111-aaaa", "22222222-bbbb"}
CfgStores == {Runes(""), Runes("ManyRocks")}
CfgBaseDirs == {Runes(""), Runes("/data/c")}
EnvBaseDirs == {Runes(""), Runes("/data/b")}
ArgBaseDirs == {Runes(""), Runes("/data/a")}

\* what common.SetupServerConfig can return
Configs ==
    { [services |-> ServiceConfigs(k),
       storage  |-> [HostUUID |-> u, Store |-> s, BaseDir |-> d]] :
      k \in 0..MaxPortProfile, u \in HostUUIDs, s \in CfgStores, d \in CfgBaseDirs }

\* the environment a process is started with
StartEnvs == { [port |-> "", CHERAMI_STORE |-> e] : e \in EnvBaseDirs }

BackendTokens == <<Runes("rockstor"), Runes("chunky"), Runes("manyrocks"), Runes("rockcfstor")>>

RECURSIVE TokenRunsOver(_, _)
\* the concatenations of n different backend tokens out of `avail`
TokenRunsOver(n, avail) ==
    IF n = 0 THEN {Runes("")}
    ELSE UNION { { BackendTokens[i] \o p : p \in TokenRunsOver(n - 1, avail \ {i}) } :
                 i \in avail }

TokenRuns(n) == TokenRunsOver(n, 1..Len(BackendTokens))

\* backend names written in ASCII
AsciiStoreNames ==
    {"", "foo", "MyRockstorDB", "Rockstor", "CHUNKY", "ManyRocks", "RockCFstor",
     "rocks", "rockcfs", "my-Chunky-store"}

\* backend names with a rune outside ASCII or a byte that is no UTF-8
UnicodeStoreNames ==
    { Runes("roc") \o <<KelvinSign>> \o Runes("stor"),
      Runes("CHUN") \o <<KelvinSign>> \o Runes("Y"),
      Runes("Roc") \o <<KelvinSign>> \o Runes("CFstor"),
      Runes("rock") \o <<LongS>> \o Runes("tor"),
      Runes("ro") \o <<CyrillicEs>> \o Runes("kstor"),
      Runes("ch") \o <<CapitalIDot>> \o Runes("unky"),
      Runes("chunky") \o <<InvalidByte>>,
      Runes("CHUNKY") \o <<InvalidByte>>,
      <<InvalidByte>> \o Runes("CHUNKY") }

\* backend names given on the command line
StoreNames ==
    { Runes(n) : n \in AsciiStoreNames }
    \cup UnicodeStoreNames
    \cup UNION { TokenRuns(n) : n \in 1..MaxTokens }
    \cup { Runes("my") \o t \o Runes("db") : t \in TokenRuns(1) }

\* what a command line asks for: --store and --dir, each given or not
CommandLines ==
    { [store |-> s, dir |-> d] :
      s \in {None} \cup { Some(n) : n \in StoreNames }, d \in ArgBaseDirs }

\* the arguments that ask for cl
Arguments(cl) ==
    (IF cl.store = None THEN <<>> ELSE <<Runes("--store"), Get(cl.store)>>)
    \o (IF cl.dir = Runes("") THEN <<>> ELSE <<Runes("--dir"), cl.dir>>)

\* other argument lists: one-dash and name=value forms, a flag given twice,
\* flags after a non-flag argument or after --, flags the function does not
\* define, a flag without its value, a request for help
OtherArgLists ==
    { <<Runes("-store=CHUNKY")>>,
      <<Runes("--dir=/data/a"), Runes("-store"), Runes("chunky")>>,
      <<Runes("--store"), Runes("chunky"), Runes("--store"), Runes("foo")>>,
      <<Runes("storehost"), Runes("--store"), Runes("chunky")>>,
      <<Runes("--"), Runes("--dir"), Runes("/data/a")>>,
      <<Runes("-")>>,
      <<Runes("--bogus")>>,
      <<Runes("--store"), Runes("chunky"), Runes("--bogus")>>,
      <<Runes("--store")>>,
      <<Runes("--dir"), Runes("/data/a"), Runes("--store")>>,
      <<Runes("--dir")>>,
      <<Runes("---store"), Runes("chunky")>>,
      <<Runes("-=chunky")>>,
      <<Runes("-h")>>,
      <<Runes("--store"), Runes("chunky"), Runes("--help")>> }

\* os.Args[1:] of the storage role
ArgLists == { Arguments(cl) : cl \in CommandLines } \cup OtherArgLists

MetadataErrors == {"gocql: unable to create session", "gocql: no hosts available in the pool"}
SetenvErrors == {"setenv: invalid argument"}

\* the values uuid.New can return
UUIDPool == { "uuid-" \o FormatInt(i) : i \in 1..(MaxRuns + 1) }

(***************************************************************************)
(* State.                                                                  *)
(***************************************************************************)
VARIABLES
    serviceName,   \* the role of the function that runs
    pc,            \* the statement the function is at
    runs,          \* process starts so far
    env,           \* the process environment
    cfg,           \* cfg
    meta,          \* meta
    err,           \* err
    hwInfoReader,  \* hwInfoReader
    reporter,      \* reporter
    dClient,       \* dClient
    sCommon,       \* sCommon / sVice
    storeStr,      \* storeStr
    baseDir,       \* baseDir
    args,          \* the command line, once flag.Parse has read it
    opts,          \* opts
    frontendhost,  \* frontendhost of StartOutputHostService
    h,             \* h / mcp
    tc,            \* tc
    listeners,     \* the listeners the process has open
    exit,          \* exit status of the process, None while it runs
    logged,        \* the fatal or panic log entry
    events,        \* the calls this process has made, in order
    generated,     \* every value uuid.New has returned, over all runs
    history        \* identity and configured HostUUID of the earlier runs

locals == <<meta, err, hwInfoReader, reporter, dClient, sCommon, storeStr, baseDir,
            args, opts, frontendhost, h, tc>>
process == <<env, listeners, exit, logged>>
vars == <<serviceName, pc, runs, cfg, locals, process, events, generated, history>>

(***************************************************************************)
(* The statements of each function, in source order.                       *)
(***************************************************************************)
\* Program with the diagnostic loop started right after the port is exported
ProgramLoopEarly(r) ==
    <<"SetupServerConfig", "Setenv", "ServiceLoop", "NewCassandraMetadataService",
      "NewHostHardwareInfoReader", "NewMetricReporterWithHostname", "NewDconfigClient",
      "NewService">>
    \o (IF r = "store" THEN <<"FlagParse", "NewOptions", "SelectStore", "SelectBaseDir">> ELSE <<>>)
    \o (IF r = "output" THEN <<"NewFrontendHost">> ELSE <<>>)
    \o <<"NewHost">>
    \o (IF r = "frontend" THEN <<"AppendMetadataServer">> ELSE <<>>)
    \o <<"Start">>
    \o (IF r \in WebsocketRoles THEN <<"WSStart">> ELSE <<>>)

\* Program with the websocket server started before the host
ProgramWebsocketFirst(r) ==
    <<"SetupServerConfig", "Setenv", "NewCassandraMetadataService",
      "NewHostHardwareInfoReader", "NewMetricReporterWithHostname", "NewDconfigClient",
      "NewService">>
    \o (IF r = "store" THEN <<"FlagParse", "NewOptions", "SelectStore", "SelectBaseDir">> ELSE <<>>)
    \o (IF r = "output" THEN <<"NewFrontendHost">> ELSE <<>>)
    \o <<"NewHost">>
    \o (IF r = "frontend" THEN <<"AppendMetadataServer">> ELSE <<>>)
    \o (IF r \in WebsocketRoles THEN <<"WSStart">> ELSE <<>>)
    \o <<"Start">>
    \o <<"ServiceLoop">>

\* Program with the store host constructed before the base directory is chosen
ProgramHostBeforeBaseDir(r) ==
    <<"SetupServerConfig", "Setenv", "NewCassandraMetadataService",
      "NewHostHardwareInfoReader", "NewMetricReporterWithHostname", "NewDconfigClient",
      "NewService">>
    \o (IF r = "store" THEN <<"FlagParse", "NewOptions", "SelectStore", "NewHost", "SelectBaseDir">>
        ELSE <<>>)
    \o (IF r = "output" THEN <<"NewFrontendHost">> ELSE <<>>)
    \o (IF r = "store" THEN <<>> ELSE <<"NewHost">>)
    \o (IF r = "frontend" THEN <<"AppendMetadataServer">> ELSE <<>>)
    \o <<"Start">>
    \o (IF r \in WebsocketRoles THEN <<"WSStart">> ELSE <<>>)
    \o <<"ServiceLoop">>

Program(r) ==
    <<"SetupServerConfig", "Setenv", "NewCassandraMetadataService",
      "NewHostHardwareInfoReader", "NewMetricReporterWithHostname", "NewDconfigClient",
      "NewService">>
    \o (IF r = "store" THEN <<"FlagParse", "NewOptions", "SelectStore", "SelectBaseDir">> ELSE <<>>)
    \o (IF r = "output" THEN <<"NewFrontendHost">> ELSE <<>>)
    \o <<"NewHost">>
    \o (IF r = "frontend" THEN <<"AppendMetadataServer">> ELSE <<>>)
    \o <<"Start">>
    \o (IF r \in WebsocketRoles THEN <<"WSStart">> ELSE <<>>)
    \o <<"ServiceLoop">>

\* the statement after statement `at`; common.ServiceLoop does not return
Successor(r, at) ==
    LET p == Program(r)
        i == CHOOSE j \in 1..Len(p) : p[j] = at
    IN  IF i = Len(p) THEN "serving" ELSE p[i + 1]

Cfg == Get(cfg)
\* cfg.GetServiceConfig(serviceName)
ServiceConfig == Cfg.services[serviceName]

Init ==
    /\ serviceName \in Roles
    /\ pc = "SetupServerConfig"
    /\ runs = 1
    /\ env \in StartEnvs
    /\ cfg = None
    /\ meta = None /\ err = None
    /\ hwInfoReader = None /\ reporter = None /\ dClient = None
    /\ sCommon = None
    /\ storeStr = Runes("") /\ baseDir = Runes("") /\ args = None /\ opts = None
    /\ frontendhost = None /\ h = None /\ tc = None
    /\ listeners = {}
    /\ exit = None
    /\ logged = None
    /\ events = <<>>
    /\ generated = {}
    /\ history = {}

Advance(call) ==
    /\ pc' = Successor(serviceName, pc)
    /\ events' = events \o call

\* cfg := common.SetupServerConfig(configure.NewCommonConfigure())
SetupServerConfig ==
    /\ pc = "SetupServerConfig"
    /\ \E c \in Configs : cfg' = Some(c)
    /\ Advance(<<"SetupServerConfig">>)
    /\ UNCHANGED <<serviceName, runs, locals, process, generated, history>>

\* os.Setenv("port", fmt.Sprintf("%d", port)) returned nil
SetenvOk ==
    /\ env' = [env EXCEPT !.port = FormatInt(ServiceConfig.Port)]
    /\ Advance(<<"Setenv">>)
    /\ UNCHANGED <<listeners, exit, logged>>

\* SetenvFails with the error dropped: the function goes on
SetenvFailsIgnored ==
    /\ Advance(<<"Setenv">>)
    /\ UNCHANGED <<env, listeners, exit, logged>>

\* os.Setenv returned e: log.Panic(e)
SetenvFails ==
    /\ \E e \in SetenvErrors :
         logged' = Some([level |-> "panic", msg |-> e, err |-> None])
    /\ exit' = Some(2)
    /\ pc' = "exited"
    /\ events' = events \o <<"Setenv", "Panic">>
    /\ UNCHANGED <<env, listeners>>

Setenv ==
    /\ pc = "Setenv"
    /\ (SetenvOk \/ SetenvFails)
    /\ UNCHANGED <<serviceName, runs, cfg, locals, generated, history>>

\* metadata.NewCassandraMetadataService returned a client
MetadataOk ==
    /\ meta' = Some([kind |-> "CassandraMetadataService"])
    /\ err' = None
    /\ Advance(<<"NewCassandraMetadataService">>)
    /\ UNCHANGED process

\* MetadataFails with the error logged at error level: the function goes on
MetadataFailsLogged ==
    /\ \E e \in MetadataErrors :
         /\ err' = Some(e)
         /\ logged' = Some([level |-> "error", msg |-> FatalMessage(serviceName), err |-> Some(e)])
    /\ meta' = None
    /\ Advance(<<"NewCassandraMetadataService">>)
    /\ UNCHANGED <<env, listeners, exit>>

\* MetadataFails with the construction tried again after the error is logged
MetadataFailsRetries ==
    /\ \E e \in MetadataErrors :
         /\ err' = Some(e)
         /\ logged' = Some([level |-> "error", msg |-> FatalMessage(serviceName), err |-> Some(e)])
    /\ meta' = None
    /\ pc' = pc
    /\ events' = events \o <<"NewCassandraMetadataService">>
    /\ UNCHANGED <<env, listeners, exit>>

\* it returned an error: log.WithField(common.TagErr, err).Fatal(message)
MetadataFails ==
    /\ \E e \in MetadataErrors :
         /\ err' = Some(e)
         /\ logged' = Some([level |-> "fatal", msg |-> FatalMessage(serviceName), err |-> Some(e)])
    /\ meta' = None
    /\ exit' = Some(1)
    /\ pc' = "exited"
    /\ events' = events \o <<"NewCassandraMetadataService", "Fatal">>
    /\ UNCHANGED <<env, listeners>>

NewCassandraMetadataService ==
    /\ pc = "NewCassandraMetadataService"
    /\ (MetadataOk \/ MetadataFails)
    /\ UNCHANGED <<serviceName, runs, cfg, hwInfoReader, reporter, dClient, sCommon,
                   storeStr, baseDir, args, opts, frontendhost, h, tc, generated, history>>

\* hwInfoReader := common.NewHostHardwareInfoReader(meta)
NewHostHardwareInfoReader ==
    /\ pc = "NewHostHardwareInfoReader"
    /\ hwInfoReader' = Some([meta |-> meta])
    /\ Advance(<<"NewHostHardwareInfoReader">>)
    /\ UNCHANGED <<serviceName, runs, cfg, meta, err, reporter, dClient, sCommon,
                   storeStr, baseDir, args, opts, frontendhost, h, tc, process,
                   generated, history>>

\* reporter := common.NewMetricReporterWithHostname(cfg.GetServiceConfig(serviceName))
NewMetricReporterWithHostname ==
    /\ pc = "NewMetricReporterWithHostname"
    /\ reporter' = Some([config |-> ServiceConfig])
    /\ Advance(<<"NewMetricReporterWithHostname">>)
    /\ UNCHANGED <<serviceName, runs, cfg, meta, err, hwInfoReader, dClient, sCommon,
                   storeStr, baseDir, args, opts, frontendhost, h, tc, process,
                   generated, history>>

\* dClient := dconfigclient.NewDconfigClient(cfg.GetServiceConfig(serviceName), serviceName)
NewDconfigClient ==
    /\ pc = "NewDconfigClient"
    /\ dClient' = Some([config |-> ServiceConfig, serviceName |-> serviceName])
    /\ Advance(<<"NewDconfigClient">>)
    /\ UNCHANGED <<serviceName, runs, cfg, meta, err, hwInfoReader, reporter, sCommon,
                   storeStr, baseDir, args, opts, frontendhost, h, tc, process,
                   generated, history>>

\* uuid.New(): a random UUID, one that no earlier call returned
UUIDNew == UUIDPool \ generated

\* IdentityChoices with uuid.New() in all six functions
IdentityAlwaysGenerated == UUIDNew

\* IdentityChoices with the configured HostUUID in all six functions
IdentityAlwaysConfigured == {Cfg.storage.HostUUID}

\* the second argument of common.NewService: cfg.GetStorageConfig().GetHostUUID()
\* in StartStoreHostService, uuid.New() in the other five
IdentityChoices ==
    IF serviceName = "store" THEN {Cfg.storage.HostUUID} ELSE UUIDNew

IdentityCall == IF serviceName = "store" THEN "GetHostUUID" ELSE "uuid.New"

\* sCommon := common.NewService(serviceName, <identity>, cfg.GetServiceConfig(serviceName),
\*     common.NewUUIDResolver(meta), hwInfoReader, reporter, dClient, common.NewBypassAuthManager())
NewService ==
    /\ pc = "NewService"
    /\ \E id \in IdentityChoices :
         /\ sCommon' = Some([name         |-> serviceName,
                             uuid         |-> id,
                             config       |-> ServiceConfig,
                             resolver     |-> [meta |-> meta],
                             hwInfoReader |-> hwInfoReader,
                             reporter     |-> reporter,
                             dClient      |-> dClient,
                             auth         |-> "BypassAuthManager"])
         /\ generated' = IF IdentityCall = "uuid.New" THEN generated \cup {id} ELSE generated
    /\ Advance(<<IdentityCall, "NewService">>)
    /\ UNCHANGED <<serviceName, runs, cfg, meta, err, hwInfoReader, reporter, dClient,
                   storeStr, baseDir, args, opts, frontendhost, h, tc, process, history>>

(***************************************************************************)
(* StartStoreHostService: command line, backend kind, base directory.      *)
(***************************************************************************)
\* the flags defined on flag.CommandLine: "store" and "dir", both strings
FormalFlags == {Runes("store"), Runes("dir")}

\* flag.ErrHelp
ErrHelp == Runes("flag: help requested")

\* the exit status of flag.Parse after ErrHelp: 0 when built with Go 1.15 or
\* later, 2 when built with an earlier Go
HelpExitStatus == {0, 2}

\* the exit status of flag.Parse after any other error
ParseErrorExitStatus == 2

\* index of the first "=" of name that is not its first character, 0 if none
EqualsAt(name) ==
    LET at == {i \in 2..Len(name) : CharAt(name, i) = Runes("=")}
    IN  IF at = {} THEN 0 ELSE CHOOSE i \in at : \A j \in at : i <= j

RECURSIVE ParseFrom(_, _, _)
\* FlagSet.Parse from the i-th argument on, one parseOne after the other;
\* `seen` holds what the flags read so far have set, and the error if any
ParseFrom(argv, i, seen) ==
    IF i > Len(argv) THEN seen
    ELSE
      LET s == argv[i]
          numMinuses == IF Len(s) >= 2 /\ CharAt(s, 2) = Runes("-") THEN 2 ELSE 1
          rest == SubSeq(s, numMinuses + 1, Len(s))
          eq == EqualsAt(rest)
          name == IF eq = 0 THEN rest ELSE SubSeq(rest, 1, eq - 1)
          value == IF eq = 0 THEN argv[i + 1] ELSE SubSeq(rest, eq + 1, Len(rest))
          taken == IF eq = 0 THEN 2 ELSE 1
      IN  IF Len(s) < 2 \/ CharAt(s, 1) # Runes("-") THEN seen
          ELSE IF s = Runes("--") THEN seen
          ELSE IF Len(rest) = 0 \/ CharAt(rest, 1) \in {Runes("-"), Runes("=")}
            THEN [seen EXCEPT !.err = Some(Runes("bad flag syntax: ") \o s)]
          ELSE IF name \notin FormalFlags
            THEN IF name \in {Runes("help"), Runes("h")}
                   THEN [seen EXCEPT !.err = Some(ErrHelp)]
                   ELSE [seen EXCEPT !.err = Some(Runes("flag provided but not defined: -") \o name)]
          ELSE IF eq = 0 /\ i = Len(argv)
            THEN [seen EXCEPT !.err = Some(Runes("flag needs an argument: -") \o name)]
          ELSE ParseFrom(argv, i + taken,
                         IF name = Runes("store") THEN [seen EXCEPT !.store = Some(value)]
                                           ELSE [seen EXCEPT !.dir = value])

\* flag.CommandLine.Parse(os.Args[1:]): no flag read yet, --dir defaults to ""
FlagSetParse(argv) == ParseFrom(argv, 1, [store |-> None, dir |-> Runes(""), err |-> None])

\* FlagStore with the configured name kept whenever there is one
FlagStoreConfigFirst(cl, configured) ==
    IF configured # Runes("") THEN configured
    ELSE IF cl.store = None THEN configured ELSE Get(cl.store)

\* storeStr after flag.Parse: the default given to flag.StringVar unless
\* --store was read
FlagStore(cl, configured) == IF cl.store = None THEN configured ELSE Get(cl.store)

\* flag.Parse read all of the command line
FlagParseOk ==
    /\ Advance(<<"FlagParse">>)
    /\ UNCHANGED process

\* the line parseOne writes before the usage: failf writes the error, the help
\* branch calls usage alone and writes no line
ErrorLine(e) == IF e = ErrHelp THEN Runes("") ELSE e

\* flag.Parse met error e: parseOne has written ErrorLine(e) and the usage, and
\* flag.CommandLine handles errors with ExitOnError, so Parse calls os.Exit
FlagParseExits(e) ==
    /\ logged' = Some([level |-> "usage", msg |-> ErrorLine(e), err |-> None])
    /\ exit' \in { Some(st) : st \in IF e = ErrHelp THEN HelpExitStatus
                                                   ELSE {ParseErrorExitStatus} }
    /\ pc' = "exited"
    /\ events' = events \o <<"FlagParse", "Exit">>
    /\ UNCHANGED <<env, listeners>>

\* flag.StringVar(&storeStr, "store", cfg.GetStorageConfig().GetStore(), ...)
\* flag.StringVar(&baseDir, "dir", "", ...); flag.Parse()
FlagParse ==
    /\ pc = "FlagParse"
    /\ \E argv \in ArgLists :
         LET read == FlagSetParse(argv)
         IN  /\ args' = Some([store |-> read.store, dir |-> read.dir])
             /\ storeStr' = FlagStore(read, Cfg.storage.Store)
             /\ baseDir' = read.dir
             /\ IF read.err = None THEN FlagParseOk ELSE FlagParseExits(Get(read.err))
    /\ UNCHANGED <<serviceName, runs, cfg, meta, err, hwInfoReader, reporter, dClient,
                   sCommon, opts, frontendhost, h, tc, generated, history>>

\* the zero value of storehost.Options.Store
UnsetStore == "unset"

\* opts := &storehost.Options{BaseDir: baseDir}
NewOptions ==
    /\ pc = "NewOptions"
    /\ opts' = Some([Store |-> UnsetStore, BaseDir |-> baseDir])
    /\ Advance(<<"NewOptions">>)
    /\ UNCHANGED <<serviceName, runs, cfg, meta, err, hwInfoReader, reporter, dClient,
                   sCommon, storeStr, baseDir, args, frontendhost, h, tc, process,
                   generated, history>>

\* StoreSwitch with the first case testing the prefix the rock* names share
StoreSwitchRockPrefix(lowered, unchanged) ==
    IF Contains(lowered, Runes("rock")) THEN "Rockstor"
    ELSE IF Contains(lowered, Runes("chunky")) THEN "Chunky"
    ELSE IF Contains(lowered, Runes("manyrocks")) THEN "ManyRocks"
    ELSE IF Contains(lowered, Runes("rockcfstor")) THEN "RockCFstor"
    ELSE unchanged

\* StoreSwitch with the chunky case first
StoreSwitchChunkyFirst(lowered, unchanged) ==
    IF Contains(lowered, Runes("chunky")) THEN "Chunky"
    ELSE IF Contains(lowered, Runes("rockstor")) THEN "Rockstor"
    ELSE IF Contains(lowered, Runes("manyrocks")) THEN "ManyRocks"
    ELSE IF Contains(lowered, Runes("rockcfstor")) THEN "RockCFstor"
    ELSE unchanged

\* the switch over strings.Contains(storeStr, ...): the kind assigned to
\* opts.Store, or `unchanged` when the default case is taken
StoreSwitch(lowered, unchanged) ==
    IF Contains(lowered, Runes("rockstor")) THEN "Rockstor"
    ELSE IF Contains(lowered, Runes("chunky")) THEN "Chunky"
    ELSE IF Contains(lowered, Runes("manyrocks")) THEN "ManyRocks"
    ELSE IF Contains(lowered, Runes("rockcfstor")) THEN "RockCFstor"
    ELSE unchanged

\* switch storeStr = strings.ToLower(storeStr); { case ... }
SelectStore ==
    /\ pc = "SelectStore"
    /\ \E build \in GoBuilds :
         LET lowered == ToLower(storeStr, build)
         IN  /\ storeStr' = lowered
             /\ opts' = Some([Get(opts) EXCEPT !.Store = StoreSwitch(lowered, @)])
    /\ Advance(<<"SelectStore">>)
    /\ UNCHANGED <<serviceName, runs, cfg, meta, err, hwInfoReader, reporter, dClient,
                   sCommon, baseDir, args, frontendhost, h, tc, process, generated, history>>

\* BaseDirSwitch with the environment case first
BaseDirSwitchEnvFirst(argDir, envDir, cfgDir, unchanged) ==
    IF envDir # Runes("") THEN envDir
    ELSE IF argDir # Runes("") THEN argDir
    ELSE IF cfgDir # Runes("") THEN cfgDir
    ELSE unchanged

\* the switch that sets opts.BaseDir: command line, then CHERAMI_STORE, then
\* StorageConfig.BaseDir, else `unchanged`
BaseDirSwitch(argDir, envDir, cfgDir, unchanged) ==
    IF argDir # Runes("") THEN argDir
    ELSE IF envDir # Runes("") THEN envDir
    ELSE IF cfgDir # Runes("") THEN cfgDir
    ELSE unchanged

SelectBaseDir ==
    /\ pc = "SelectBaseDir"
    /\ opts' = Some([Get(opts) EXCEPT
                       !.BaseDir = BaseDirSwitch(baseDir, env.CHERAMI_STORE,
                                                 Cfg.storage.BaseDir, @)])
    /\ Advance(<<"SelectBaseDir">>)
    /\ UNCHANGED <<serviceName, runs, cfg, meta, err, hwInfoReader, reporter, dClient,
                   sCommon, storeStr, baseDir, args, frontendhost, h, tc, process,
                   generated, history>>

(***************************************************************************)
(* Host construction and start.                                            *)
(***************************************************************************)
\* NewFrontendHost renaming the shared bundle to the frontend's service name
NewFrontendHostRenamesBundle ==
    /\ pc = "NewFrontendHost"
    /\ sCommon' = Some([Get(sCommon) EXCEPT !.name = "frontend"])
    /\ frontendhost' = Some([package |-> "frontendhost", name |-> "frontend",
                             sCommon |-> sCommon', meta |-> meta, started |-> FALSE])
    /\ Advance(<<"NewFrontendHost">>)
    /\ UNCHANGED <<serviceName, runs, cfg, meta, err, hwInfoReader, reporter, dClient,
                   storeStr, baseDir, args, opts, h, tc, process, generated, history>>

\* NewFrontendHost followed by frontendhost.Start
NewFrontendHostStarted ==
    /\ pc = "NewFrontendHost"
    /\ frontendhost' = Some([package |-> "frontendhost", name |-> "frontend",
                             sCommon |-> sCommon, meta |-> meta, started |-> TRUE])
    /\ listeners' = listeners \cup
         {[kind |-> "primary", addr |-> IPString(Cfg.services["frontend"].ListenAddress),
           port |-> Cfg.services["frontend"].Port, service |-> "frontendhost"]}
    /\ Advance(<<"NewFrontendHost", "Start">>)
    /\ UNCHANGED <<serviceName, runs, cfg, meta, err, hwInfoReader, reporter, dClient,
                   sCommon, storeStr, baseDir, args, opts, h, tc, env, exit, logged,
                   generated, history>>

\* frontendhost, _ := frontendhost.NewFrontendHost(common.FrontendServiceName, sCommon, meta, cfg)
NewFrontendHost ==
    /\ pc = "NewFrontendHost"
    /\ frontendhost' = Some([package |-> "frontendhost", name |-> "frontend",
                             sCommon |-> sCommon, meta |-> meta, started |-> FALSE])
    /\ Advance(<<"NewFrontendHost">>)
    /\ UNCHANGED <<serviceName, runs, cfg, meta, err, hwInfoReader, reporter, dClient,
                   sCommon, storeStr, baseDir, args, opts, h, tc, process, generated, history>>

\* h, tc := <package>.New<Host>(serviceName, sCommon, meta, ...)
NewHost ==
    /\ pc = "NewHost"
    /\ h' = Some([package      |-> HostPackage(serviceName),
                  name         |-> serviceName,
                  sCommon      |-> sCommon,
                  meta         |-> meta,
                  opts         |-> opts,
                  frontendhost |-> frontendhost])
    /\ tc' = Some(<<HostPackage(serviceName)>>)
    /\ Advance(<<"NewHost">>)
    /\ UNCHANGED <<serviceName, runs, cfg, meta, err, hwInfoReader, reporter, dClient,
                   sCommon, storeStr, baseDir, args, opts, frontendhost, process,
                   generated, history>>

\* tc = append(tc, m.NewTChanMetadataExposableServer(meta))
AppendMetadataServer ==
    /\ pc = "AppendMetadataServer"
    /\ tc' = Some(Get(tc) \o <<"MetadataExposable">>)
    /\ Advance(<<"AppendMetadataServer">>)
    /\ UNCHANGED <<serviceName, runs, cfg, meta, err, hwInfoReader, reporter, dClient,
                   sCommon, storeStr, baseDir, args, opts, frontendhost, h, process,
                   generated, history>>

Listener(kind, addr, port, service) ==
    [kind |-> kind, addr |-> addr, port |-> port, service |-> service]

\* h.Start(tc): the host serves tc on the address and port of its bundle
Start ==
    /\ pc = "Start"
    /\ listeners' = listeners \cup
         {Listener("primary", IPString(Get(Get(h).sCommon).config.ListenAddress),
                   Get(Get(h).sCommon).config.Port, Get(h).package)}
    /\ Advance(<<"Start">>)
    /\ UNCHANGED <<serviceName, runs, cfg, locals, env, exit, logged, generated, history>>

\* common.WSStart(cfg.GetServiceConfig(serviceName).GetListenAddress().String(),
\*     cfg.GetServiceConfig(serviceName).GetWebsocketPort(), h)
WSStart ==
    /\ pc = "WSStart"
    /\ listeners' = listeners \cup
         {Listener("websocket", IPString(ServiceConfig.ListenAddress),
                   ServiceConfig.WebsocketPort, Get(h).package)}
    /\ Advance(<<"WSStart">>)
    /\ UNCHANGED <<serviceName, runs, cfg, locals, env, exit, logged, generated, history>>

\* DiagnosticPort with the offset subtracted
DiagnosticPortBelow(port) == port - diagnosticPortOffset

\* cfg.GetServiceConfig(serviceName).GetPort() + diagnosticPortOffset; Go's int
\* is 64 bits wide and a port is below 2^16, so the sum does not wrap
DiagnosticPort(port) == port + diagnosticPortOffset

\* common.ServiceLoop(<diagnostic port>, cfg, <service>): serves and does not return
ServiceLoop ==
    /\ pc = "ServiceLoop"
    /\ listeners' = listeners \cup
         {Listener("diagnostic", "", DiagnosticPort(ServiceConfig.Port),
                   LoopService(serviceName))}
    /\ Advance(<<"ServiceLoop">>)
    /\ UNCHANGED <<serviceName, runs, cfg, locals, env, exit, logged, generated, history>>

(***************************************************************************)
(* The supervisor starts the process again: a new process of the same      *)
(* role, with nothing of the old one but what is outside it.               *)
(***************************************************************************)
Restart ==
    /\ pc \in {"serving", "exited"}
    /\ runs < MaxRuns
    /\ runs' = runs + 1
    /\ history' = IF sCommon = None THEN history
                  ELSE history \cup {[uuid |-> Get(sCommon).uuid,
                                      HostUUID |-> Cfg.storage.HostUUID]}
    /\ pc' = "SetupServerConfig"
    /\ env' \in StartEnvs
    /\ cfg' = None
    /\ meta' = None /\ err' = None
    /\ hwInfoReader' = None /\ reporter' = None /\ dClient' = None
    /\ sCommon' = None
    /\ storeStr' = Runes("") /\ baseDir' = Runes("") /\ args' = None /\ opts' = None
    /\ frontendhost' = None /\ h' = None /\ tc' = None
    /\ listeners' = {}
    /\ exit' = None
    /\ logged' = None
    /\ events' = <<>>
    /\ UNCHANGED <<serviceName, generated>>

Next ==
    \/ SetupServerConfig
    \/ Setenv
    \/ NewCassandraMetadataService
    \/ NewHostHardwareInfoReader
    \/ NewMetricReporterWithHostname
    \/ NewDconfigClient
    \/ NewService
    \/ FlagParse
    \/ NewOptions
    \/ SelectStore
    \/ SelectBaseDir
    \/ NewFrontendHost
    \/ NewHost
    \/ AppendMetadataServer
    \/ Start
    \/ WSStart
    \/ ServiceLoop
    \/ Restart

\* a statement of the running function
Step ==
    \/ SetupServerConfig
    \/ Setenv
    \/ NewCassandraMetadataService
    \/ NewHostHardwareInfoReader
    \/ NewMetricReporterWithHostname
    \/ NewDconfigClient
    \/ NewService
    \/ FlagParse
    \/ NewOptions
    \/ SelectStore
    \/ SelectBaseDir
    \/ NewFrontendHost
    \/ NewHost
    \/ AppendMetadataServer
    \/ Start
    \/ WSStart
    \/ ServiceLoop

Spec == Init /\ [][Next]_vars

(***************************************************************************)
(* Properties.                                                             *)
(***************************************************************************)
Happened(call) == \E i \in DOMAIN events : events[i] = call

\* every occurrence of `later` has an occurrence of `earlier` before it
Precedes(earlier, later) ==
    \A j \in DOMAIN events :
      events[j] = later => \E i \in 1..(j - 1) : events[i] = earlier

Kinds == {l.kind : l \in listeners}

ListenerCalls == {"Start", "WSStart", "ServiceLoop"}

\* the bundle exists and none of its collaborators is nil
BundleComplete ==
    /\ sCommon # None
    /\ Get(sCommon).resolver.meta # None
    /\ Get(sCommon).hwInfoReader # None
    /\ Get(sCommon).reporter # None
    /\ Get(sCommon).dClient # None

\* C1: in every role, a listener (primary, websocket, diagnostic) is open only
\* when the metadata client was constructed without error and common.NewService
\* built the complete bundle earlier in the same run.
C1_NoListenerBeforeBundle ==
    /\ listeners # {} => (meta # None /\ err = None /\ BundleComplete)
    /\ \A c \in ListenerCalls :
         /\ Precedes("NewCassandraMetadataService", c)
         /\ Precedes("NewService", c)
         /\ Happened(c) => ~Happened("Fatal")

C1_Witness ==
    /\ serviceName = "controller"
    /\ Kinds = {"primary", "diagnostic"}
    /\ BundleComplete

\* C2: in every role, when metadata-client construction returns an error the
\* process has exited with status 1 and has opened nothing: no bundle, no host,
\* no host start, no websocket server, no diagnostic loop.
C2_MetadataFailureOpensNothing ==
    err # None =>
      /\ exit = Some(1)
      /\ pc = "exited"
      /\ listeners = {}
      /\ sCommon = None /\ h = None /\ frontendhost = None
      /\ \A c \in ListenerCalls \cup {"NewService", "NewHost", "NewFrontendHost"} :
           ~Happened(c)

C2_Witness ==
    /\ serviceName = "replicator"
    /\ err # None
    /\ exit = Some(1)

\* C3: in every role, the fatal log entry written when metadata-client
\* construction fails names the role being started and carries the error.
C3_FatalMessageNamesRole ==
    (logged # None /\ Get(logged).level = "fatal") =>
      /\ \A build \in GoBuilds :
           Contains(ToLower(Runes(Get(logged).msg), build), Runes(serviceName))
      /\ Get(logged).err # None
      /\ Get(logged).err = err

\* the store host has been constructed from the command line `args`
StoreHostBuilt == serviceName = "store" /\ h # None /\ args # None

PassedOpts == Get(Get(h).opts)

\* C4: the BaseDir passed to the store host constructor is the first non-empty
\* of --dir, CHERAMI_STORE and StorageConfig.BaseDir, in that order, and is
\* empty exactly when all three are empty.
C4_BaseDirPrecedence ==
    StoreHostBuilt =>
      LET a == Get(args).dir
          e == env.CHERAMI_STORE
          c == Cfg.storage.BaseDir
          b == PassedOpts.BaseDir
          none == Runes("")
      IN  /\ a # none => b = a
          /\ (a = none /\ e # none) => b = e
          /\ (a = none /\ e = none /\ c # none) => b = c
          /\ b = none <=> (a = none /\ e = none /\ c = none)

C4_Witness ==
    /\ StoreHostBuilt
    /\ Get(args).dir = Runes("")
    /\ env.CHERAMI_STORE = Runes("/data/b")
    /\ Cfg.storage.BaseDir = Runes("/data/c")
    /\ PassedOpts.BaseDir = Runes("/data/b")

\* rocKstor with the Kelvin sign for its k, which lower-cases to k
KelvinRockstor == Runes("roc") \o <<KelvinSign>> \o Runes("stor")

\* rockstor with a long s for its s, and roCkstor with a Cyrillic Es for its
\* c: neither lower-cases to the token
LongSRockstor == Runes("rock") \o <<LongS>> \o Runes("tor")
CyrillicRockstor == Runes("ro") \o <<CyrillicEs>> \o Runes("kstor")

ChunkyRockstor == Runes("chunkyrockstor")

\* the backend name before it is lower-cased
RawStoreName == IF Get(args).store = None THEN Cfg.storage.Store ELSE Get(Get(args).store)

KindOfToken == <<"Rockstor", "Chunky", "ManyRocks", "RockCFstor">>

\* the kind of the earliest-listed token the name contains once lower-cased
\* by a program of the given build
FirstTokenKindBuilt(name, build) ==
    LET lowered == ToLower(name, build)
        hits == {i \in 1..Len(BackendTokens) : Contains(lowered, BackendTokens[i])}
    IN  IF hits = {} THEN UnsetStore
        ELSE KindOfToken[CHOOSE i \in hits : \A j \in hits : i <= j]

\* the same for the build with Go 1.12 or later
FirstTokenKind(name) == FirstTokenKindBuilt(name, "1.12 or later")

\* the kind the switch gives some names, worked out by hand
KindByHand ==
    (Runes("MyRockstorDB") :> "Rockstor")
    @@ (Runes("CHUNKY") :> "Chunky")
    @@ (Runes("chunkyrockstor") :> "Rockstor")
    @@ (Runes("foo") :> UnsetStore)
    @@ (KelvinRockstor :> "Rockstor")
    @@ (LongSRockstor :> UnsetStore)
    @@ (CyrillicRockstor :> UnsetStore)
    @@ (Runes("chunky") \o <<InvalidByte>> :> "Chunky")
    @@ (<<InvalidByte>> \o Runes("CHUNKY") :> "Chunky")

\* the strings strings.ToLower can return for name
Lowered(name) == { ToLower(name, build) : build \in GoBuilds }

\* C5: the backend kind passed to the store host is that of the first of
\* rockstor, chunky, manyrocks, rockcfstor contained in the lower-cased
\* backend name, and the unset kind when none is contained.
C5_BackendKindByFirstToken ==
    StoreHostBuilt =>
      /\ \A build \in GoBuilds :
           PassedOpts.Store = FirstTokenKindBuilt(RawStoreName, build)
      /\ RawStoreName \in DOMAIN KindByHand => PassedOpts.Store = KindByHand[RawStoreName]

C5_Witness ==
    /\ StoreHostBuilt
    /\ RawStoreName = ChunkyRockstor
    /\ PassedOpts.Store = "Rockstor"

\* C6: in every role the host is started first, then the websocket server
\* where the role has one, then the diagnostic loop.
C6_StartOrder ==
    /\ Precedes("Start", "WSStart")
    /\ Precedes("Start", "ServiceLoop")
    /\ serviceName \in WebsocketRoles => Precedes("WSStart", "ServiceLoop")
    /\ "websocket" \in Kinds => "primary" \in Kinds
    /\ "diagnostic" \in Kinds => "primary" \in Kinds
    /\ ("diagnostic" \in Kinds /\ serviceName \in WebsocketRoles) => "websocket" \in Kinds

C6_Witness ==
    /\ serviceName = "input"
    /\ pc = "serving"
    /\ Happened("WSStart")
    /\ Kinds = {"primary", "websocket", "diagnostic"}

DigitValue(c) == (CHOOSE i \in 1..Len(DigitChars) : CharAt(DigitChars, i) = c) - 1

RECURSIVE ParseNat(_)
\* the number a string of decimal digits denotes
ParseNat(s) ==
    IF Len(s) = 0 THEN 0
    ELSE ParseNat(SubSeq(s, 1, Len(s) - 1)) * 10 + DigitValue(CharAt(s, Len(s)))

\* C7: the diagnostic loop listens on the role's own configured port plus
\* 10000, and that port is the one exported in the environment variable port.
C7_DiagnosticPort ==
    \A l \in listeners :
      l.kind = "diagnostic" =>
        /\ l.port = Cfg.services[serviceName].Port + 10000
        /\ env.port # ""
        /\ l.port = ParseNat(env.port) + 10000

C7_Witness ==
    \E l \in listeners :
      /\ l.kind = "diagnostic"
      /\ l.port = 75535
      /\ env.port = "65535"

\* C8: in the storage role the identity in the bundle is the configured
\* HostUUID, whatever the command line and the environment, so it is the
\* identity of every earlier start that had the same configured HostUUID.
C8_StoreIdentityStable ==
    (serviceName = "store" /\ sCommon # None) =>
      /\ Get(sCommon).uuid = Cfg.storage.HostUUID
      /\ \A p \in history :
           p.HostUUID = Cfg.storage.HostUUID => p.uuid = Get(sCommon).uuid

C8_Witness ==
    /\ serviceName = "store"
    /\ runs = 2
    /\ h # None
    /\ \E p \in history : p.HostUUID = Cfg.storage.HostUUID
    /\ args # None /\ Get(args).store # None /\ Get(args).dir # Runes("")
    /\ env.CHERAMI_STORE # Runes("")

\* C9: in the other five roles the identity in the bundle was generated by
\* uuid.New during this start and is the identity of no earlier start.
C9_OtherIdentityFresh ==
    (serviceName # "store" /\ sCommon # None) =>
      /\ Happened("uuid.New")
      /\ Get(sCommon).uuid \in generated
      /\ \A p \in history : p.uuid # Get(sCommon).uuid

C9_Witness ==
    /\ serviceName = "frontend"
    /\ runs = 2
    /\ sCommon # None
    /\ \E p \in history : p.HostUUID = Cfg.storage.HostUUID

\* the step of section 4.4 of the specification a call belongs to, times ten:
\* identity and backend selection are both step 7
NumberedStep(call) ==
    CASE call = "SetupServerConfig"             -> 10
      [] call \in {"Setenv", "Panic"}           -> 20
      [] call \in {"NewCassandraMetadataService", "Fatal"} -> 30
      [] call = "NewHostHardwareInfoReader"     -> 40
      [] call = "NewMetricReporterWithHostname" -> 50
      [] call = "NewDconfigClient"              -> 60
      [] call \in {"uuid.New", "GetHostUUID", "FlagParse", "Exit", "NewOptions",
                   "SelectStore", "SelectBaseDir"} -> 70
      [] call = "NewService"                    -> 80
      [] call \in {"NewFrontendHost", "NewHost", "AppendMetadataServer"} -> 90
      [] call = "Start"                         -> 110
      [] call = "WSStart"                       -> 120
      [] call = "ServiceLoop"                   -> 130

BackendSelectionCalls == {"FlagParse", "NewOptions", "SelectStore", "SelectBaseDir"}

\* the same, with backend selection between step 8 and step 9
AmendedStep(call) ==
    IF call \in BackendSelectionCalls \cup {"Exit"} THEN 85 ELSE NumberedStep(call)

NoCallTwice == \A i, j \in DOMAIN events : events[i] = events[j] => i = j

\* C10 as claimed: the calls of a run are made in the numbered order of the
\* steps, backend selection (step 7) before the bundle is assembled (step 8).
C10_NumberedOrder ==
    /\ NoCallTwice
    /\ \A i, j \in DOMAIN events :
         i < j => NumberedStep(events[i]) <= NumberedStep(events[j])

\* C10: the calls of a run are made in the numbered order of the steps, except
\* that in the storage role backend kind and base directory are resolved after
\* the bundle is assembled and before the store host is constructed; the
\* identity is resolved before the bundle is assembled in every role.
C10_AmendedOrder ==
    /\ NoCallTwice
    /\ \A i, j \in DOMAIN events :
         i < j => AmendedStep(events[i]) <= AmendedStep(events[j])
    /\ Happened("NewService") => (Happened("uuid.New") \/ Happened("GetHostUUID"))
    /\ (serviceName = "store" /\ Happened("NewHost")) =>
         \A c \in BackendSelectionCalls : Happened(c)

C10_Witness ==
    /\ serviceName = "store"
    /\ pc = "serving"
    /\ Happened("SelectBaseDir") /\ Happened("NewService") /\ Happened("NewHost")
\* C11: in every role the environment variable port holds the role's primary
\* port before metadata-client construction is attempted, and when setting it
\* fails the process has aborted with no metadata client attempted, no bundle
\* and no listener.
C11_PortExportedFirst ==
    /\ Precedes("Setenv", "NewCassandraMetadataService")
    /\ Happened("NewCassandraMetadataService") =>
         /\ env.port = FormatInt(Cfg.services[serviceName].Port)
         /\ ParseNat(env.port) = Cfg.services[serviceName].Port
         /\ ~Happened("Panic")
    /\ Happened("Panic") =>
         /\ exit = Some(2) /\ pc = "exited"
         /\ events[Len(events)] = "Panic"
         /\ env.port = ""
         /\ meta = None /\ err = None /\ sCommon = None /\ h = None
         /\ listeners = {}

C11_Witness ==
    /\ serviceName = "store"
    /\ Happened("Panic")
    /\ exit = Some(2)
\* how often this run has made a call
CountOf(call) == Cardinality({i \in DOMAIN events : events[i] = call})

\* C13: a process computes its identity once and constructs its bundle once,
\* the hosts hold that bundle, and once the bundle is constructed no later
\* statement of the run changes it or its identity.
C13_BundleBuiltOnceAndKept ==
    /\ [](/\ CountOf("NewService") <= 1
          /\ CountOf("uuid.New") + CountOf("GetHostUUID") <= 1
          /\ sCommon # None <=> CountOf("NewService") = 1
          /\ sCommon # None => CountOf("uuid.New") + CountOf("GetHostUUID") = 1
          /\ h # None => Get(h).sCommon = sCommon
          /\ frontendhost # None => Get(frontendhost).sCommon = sCommon)
    /\ [][(sCommon # None /\ runs' = runs) => sCommon' = sCommon]_vars

C13_Witness ==
    /\ serviceName = "output"
    /\ pc = "serving"
    /\ frontendhost # None /\ h # None
    /\ Get(h).sCommon = sCommon
StreamingRoles == {"input", "output", "store", "replicator"}

\* C14: a websocket server is started in the input, output, store and
\* replicator roles, on the role's own configured listen address and
\* websocket port, and never in the controller and frontend roles.
C14_WebsocketRoles ==
    /\ serviceName \in {"controller", "frontend"} =>
         (~Happened("WSStart") /\ "websocket" \notin Kinds)
    /\ (serviceName \in StreamingRoles /\ pc = "serving") =>
         (CountOf("WSStart") = 1 /\ "websocket" \in Kinds)
    /\ \A l \in listeners :
         l.kind = "websocket" =>
           /\ serviceName \in StreamingRoles
           /\ l.port = Cfg.services[serviceName].WebsocketPort
           /\ l.addr = IPString(Cfg.services[serviceName].ListenAddress)
           /\ l.addr \in {"127.0.0.1", "0.0.0.0", "10.0.0.255"}
           /\ \A r \in Roles \ {serviceName} : l.port # Cfg.services[r].WebsocketPort

C14_Witness ==
    /\ serviceName = "replicator"
    /\ pc = "serving"
    /\ \E l \in listeners : l.kind = "websocket" /\ l.addr = "10.0.0.255"
\* C15: a run attempts metadata-client construction at most once; after a
\* failed attempt the attempt and its fatal log are the last things the run
\* did, and the function has no statement left to execute.
C15_NoRetry ==
    /\ CountOf("NewCassandraMetadataService") <= 1
    /\ err # None =>
         /\ CountOf("NewCassandraMetadataService") = 1
         /\ Len(events) >= 2
         /\ events[Len(events) - 1] = "NewCassandraMetadataService"
         /\ events[Len(events)] = "Fatal"
         /\ pc = "exited"
         /\ ~ENABLED Step

C15_Witness ==
    /\ serviceName = "frontend"
    /\ err # None
    /\ pc = "exited"
\* CHUNKY with the Kelvin sign for its K
KelvinChunky == Runes("CHUN") \o <<KelvinSign>> \o Runes("Y")

ManyRocksName == Runes("ManyRocks")
FooName == Runes("foo")

\* kind and lower-cased name that some given names lead to, worked out by hand
GivenByHand ==
    (Runes("foo") :> [kind |-> UnsetStore, lowered |-> {Runes("foo")}])
    @@ (Runes("chunky") :> [kind |-> "Chunky", lowered |-> {Runes("chunky")}])
    @@ (KelvinChunky :> [kind |-> "Chunky", lowered |-> {Runes("chunky")}])
    @@ (LongSRockstor :> [kind |-> UnsetStore, lowered |-> {LongSRockstor}])
    @@ (Runes("chunky") \o <<InvalidByte>> :>
          [kind |-> "Chunky", lowered |-> {Runes("chunky") \o <<InvalidByte>>,
                                           Runes("chunky") \o <<RuneError>>}])
    @@ (<<InvalidByte>> \o Runes("CHUNKY") :>
          [kind |-> "Chunky", lowered |-> {<<InvalidByte>> \o Runes("chunky"),
                                           <<RuneError>> \o Runes("chunky")}])
    @@ (Runes("CHUNKY") \o <<InvalidByte>> :>
          [kind |-> "Chunky", lowered |-> {Runes("chunky") \o <<RuneError>>}])

\* C16: the backend name matched against the tokens is the --store value
\* when the flag is given and StorageConfig.Store otherwise; a given value
\* wins over the configured one also when it matches no token.
C16_StoreFlagOverridesConfig ==
    StoreHostBuilt =>
      LET given == Get(args).store
          configured == Cfg.storage.Store
      IN  /\ given # None =>
               /\ storeStr \in Lowered(Get(given))
               /\ PassedOpts.Store = FirstTokenKind(Get(given))
          /\ given = None =>
               /\ storeStr \in Lowered(configured)
               /\ PassedOpts.Store = FirstTokenKind(configured)
          /\ (given = None /\ configured = ManyRocksName) =>
               (PassedOpts.Store = "ManyRocks" /\ storeStr = BackendTokens[3])
          /\ (given # None /\ Get(given) \in DOMAIN GivenByHand
              /\ configured = ManyRocksName) =>
               /\ PassedOpts.Store = GivenByHand[Get(given)].kind
               /\ storeStr \in GivenByHand[Get(given)].lowered

C16_Witness ==
    /\ StoreHostBuilt
    /\ Get(args).store = Some(FooName)
    /\ Cfg.storage.Store = ManyRocksName
    /\ PassedOpts.Store = UnsetStore
ListenersOfKind(k) == {l \in listeners : l.kind = k}

\* C17: a run starts at most one primary host, one websocket server and one
\* diagnostic loop; in the output role the frontend host is constructed and
\* never started, the one primary host being the output host.
C17_OneOfEach ==
    /\ \A c \in ListenerCalls : CountOf(c) <= 1
    /\ \A k \in {"primary", "websocket", "diagnostic"} : Cardinality(ListenersOfKind(k)) <= 1
    /\ Kinds \subseteq {"primary", "websocket", "diagnostic"}
    /\ serviceName # "output" => frontendhost = None
    /\ (serviceName = "output" /\ frontendhost # None) =>
         /\ ~Get(frontendhost).started
         /\ \A l \in listeners : l.service # "frontendhost"
         /\ \A l \in ListenersOfKind("primary") : l.service = "outputhost"

C17_Witness ==
    /\ serviceName = "output"
    /\ pc = "serving"
    /\ frontendhost # None
    /\ Cardinality(listeners) = 3
    /\ \E l \in listeners : l.kind = "primary" /\ l.service = "outputhost"
\* RocKCFstor with the Kelvin sign for its k
KelvinRockCFstor == Runes("Roc") \o <<KelvinSign>> \o Runes("CFstor")

\* the four tokens in several letter cases and the kind of each
TokenByHand ==
    [n \in {Runes("rockstor"), Runes("Rockstor"), KelvinRockstor} |-> "Rockstor"]
    @@ [n \in {Runes("chunky"), Runes("CHUNKY"), KelvinChunky} |-> "Chunky"]
    @@ [n \in {Runes("manyrocks"), Runes("ManyRocks")} |-> "ManyRocks"]
    @@ [n \in {Runes("rockcfstor"), Runes("RockCFstor"), KelvinRockCFstor} |-> "RockCFstor"]

\* C18: a backend name that is one of the four tokens, in any letter case,
\* gets that token's own kind: no token is shadowed by an earlier one.
C18_EveryKindSelectable ==
    StoreHostBuilt =>
      LET lowered == Lowered(RawStoreName)
      IN  /\ \A i \in 1..Len(BackendTokens) :
               BackendTokens[i] \in lowered => PassedOpts.Store = KindOfToken[i]
          /\ RawStoreName \in DOMAIN TokenByHand =>
               PassedOpts.Store = TokenByHand[RawStoreName]

C18_Witness ==
    /\ StoreHostBuilt
    /\ RawStoreName = KelvinRockCFstor
    /\ PassedOpts.Store = "RockCFstor"
====
